---- MODULE Spec2Model ----
(***************************************************************************)
(* Model of m3u_checker.py: the playlist parser, the link classifier       *)
(* (check_url_worker), the thread-pool checking loop of __main__ and the   *)
(* writer save_valid_m3u.                                                  *)
(*                                                                         *)
(* Python str values are sequences of one-character strings, so that       *)
(* strip(), lower(), split(';'), startswith() and re.match() are computed  *)
(* character by character.  Python None is the empty sequence: the only    *)
(* values that can be None (an entry's 'extinf', saved_filepath) are       *)
(* otherwise non-empty strings, and the code only tests their truthiness.  *)
(***************************************************************************)
EXTENDS Integers, Sequences, FiniteSets, TLC

\* ------------------------------------------------------------------ bounds
\* Longest playlist (in lines) drawn in Init.
MaxLines == 3

\* --------------------------------------------------------- str primitives
None == <<>>

\* str.strip() with no argument removes leading and trailing whitespace.
WHITESPACE == {" ", "\t"}

RECURSIVE lstrip(_)
lstrip(s) == IF s # <<>> /\ Head(s) \in WHITESPACE THEN lstrip(Tail(s)) ELSE s

RECURSIVE rstrip(_)
rstrip(s) ==
    IF s # <<>> /\ s[Len(s)] \in WHITESPACE
    THEN rstrip(SubSeq(s, 1, Len(s) - 1))
    ELSE s

strip(s) == rstrip(lstrip(s))

UPPERCASE == <<"A","B","C","D","E","F","G","H","I","J","K","L","M",
               "N","O","P","Q","R","S","T","U","V","W","X","Y","Z">>
LOWERCASE == <<"a","b","c","d","e","f","g","h","i","j","k","l","m",
               "n","o","p","q","r","s","t","u","v","w","x","y","z">>

lower_char(c) ==
    IF \E i \in DOMAIN UPPERCASE : UPPERCASE[i] = c
    THEN LOWERCASE[CHOOSE i \in DOMAIN UPPERCASE : UPPERCASE[i] = c]
    ELSE c

\* str.lower()
lower(s) == [i \in DOMAIN s |-> lower_char(s[i])]

\* str.startswith(prefix)
startswith(s, prefix) ==
    Len(s) >= Len(prefix) /\ SubSeq(s, 1, Len(prefix)) = prefix

\* s.split(sep)[0]: the text before the first occurrence of sep (all of s
\* when sep does not occur).
split_first(s, sep) ==
    IF \E i \in DOMAIN s : s[i] = sep
    THEN SubSeq(s, 1, (CHOOSE i \in DOMAIN s :
                          s[i] = sep /\ \A j \in 1..(i - 1) : s[j] # sep) - 1)
    ELSE s

\* re.match(pattern, string, re.IGNORECASE) for the patterns of
\* IGNORED_CONTENT_TYPES_PATTERNS: literal text, optionally followed by ".*".
\* re.match anchors at the start only; ".*" matches any (possibly empty) rest.
re_match(pattern, string) ==
    LET n       == Len(pattern)
        wild    == n >= 2 /\ SubSeq(pattern, n - 1, n) = <<".", "*">>
        literal == IF wild THEN SubSeq(pattern, 1, n - 2) ELSE pattern
    IN  startswith(lower(string), lower(literal))

\* ------------------------------------------------------ module constants
VALID_CONTENT_TYPES == <<
    <<"a","p","p","l","i","c","a","t","i","o","n","/","v","n","d",".","a","p","p","l","e",".","m","p","e","g","u","r","l">>,
    <<"a","p","p","l","i","c","a","t","i","o","n","/","x","-","m","p","e","g","u","r","l">>,
    <<"a","u","d","i","o","/","m","p","e","g","u","r","l">>,
    <<"v","i","d","e","o","/","m","p","2","t">>,
    <<"v","i","d","e","o","/","m","p","e","g">>,
    <<"v","i","d","e","o","/","x","-","m","s","v","i","d","e","o">>,
    <<"v","i","d","e","o","/","m","p","4">>,
    <<"a","u","d","i","o","/","m","p","e","g">>,
    <<"a","u","d","i","o","/","a","a","c">>,
    <<"a","u","d","i","o","/","o","g","g">>,
    <<"a","p","p","l","i","c","a","t","i","o","n","/","o","c","t","e","t","-","s","t","r","e","a","m">>,
    <<"a","p","p","l","i","c","a","t","i","o","n","/","x","-","m","p","e","g","U","R","L">>,
    <<"v","i","d","e","o","/","x","-","f","l","v">> >>

IGNORED_CONTENT_TYPES_PATTERNS == <<
    <<"t","e","x","t","/","h","t","m","l">>,
    <<"a","p","p","l","i","c","a","t","i","o","n","/","j","s","o","n">>,
    <<"t","e","x","t","/","p","l","a","i","n">>,
    <<"i","m","a","g","e","/",".","*">>,
    <<"a","p","p","l","i","c","a","t","i","o","n","/","p","d","f">>,
    <<"a","p","p","l","i","c","a","t","i","o","n","/","x","m","l">>,
    <<"t","e","x","t","/","x","m","l">> >>

EXTINF_PREFIX == <<"#","E","X","T","I","N","F",":">>
HTTP_PREFIX   == <<"h","t","t","p",":","/","/">>
HTTPS_PREFIX  == <<"h","t","t","p","s",":","/","/">>

\* ------------------------------------------------ is_ignored_content_type
is_ignored_content_type(content_type) ==
    IF content_type = <<>> THEN FALSE
    ELSE LET ct == strip(split_first(lower(content_type), ";"))
         IN  \E i \in DOMAIN IGNORED_CONTENT_TYPES_PATTERNS :
                 re_match(IGNORED_CONTENT_TYPES_PATTERNS[i], ct)

\* Mutant: a comment line clears the pending #EXTINF line.
RECURSIVE parse_loop_comment_clears(_, _, _, _)
parse_loop_comment_clears(content_lines_str, i, parsed_entries, current_extinf) ==
    IF i > Len(content_lines_str) THEN parsed_entries
    ELSE LET line == strip(content_lines_str[i])
         IN  IF line = <<>>
             THEN parse_loop_comment_clears(content_lines_str, i + 1, parsed_entries,
                                            current_extinf)
             ELSE IF startswith(line, EXTINF_PREFIX)
             THEN parse_loop_comment_clears(content_lines_str, i + 1, parsed_entries, line)
             ELSE IF startswith(line, <<"#">>)
             THEN parse_loop_comment_clears(content_lines_str, i + 1, parsed_entries, None)
             ELSE parse_loop_comment_clears(content_lines_str, i + 1,
                             Append(parsed_entries,
                                    [extinf |-> current_extinf,
                                     url |-> line,
                                     original_line_number |-> Len(parsed_entries) + 1]),
                             None)

\* ------------------------------------- parse_m3u_content_with_extinf_str
\* The for loop of the parser, from line i on, with the loop's two locals.
RECURSIVE parse_loop(_, _, _, _)
parse_loop(content_lines_str, i, parsed_entries, current_extinf) ==
    IF i > Len(content_lines_str) THEN parsed_entries
    ELSE LET line == strip(content_lines_str[i])
         IN  IF line = <<>>
             THEN parse_loop(content_lines_str, i + 1, parsed_entries, current_extinf)
             ELSE IF startswith(line, EXTINF_PREFIX)
             THEN parse_loop(content_lines_str, i + 1, parsed_entries, line)
             ELSE IF startswith(line, <<"#">>)
             THEN parse_loop(content_lines_str, i + 1, parsed_entries, current_extinf)
             ELSE parse_loop(content_lines_str, i + 1,
                             Append(parsed_entries,
                                    [extinf |-> current_extinf,
                                     url |-> line,
                                     original_line_number |-> Len(parsed_entries) + 1]),
                             None)

parse_m3u_content_with_extinf_str(content_lines_str) ==
    parse_loop(content_lines_str, 1, <<>>, None)

\* ------------------------------------------------------- check_url_worker
\* requests.head either returns a response or raises.  A probe outcome is
\*   [raises |-> exception class or "None", status_code, headers]
\* where headers maps the header names present to their values.

\* The classes an exception is an instance of (requests.exceptions and the
\* builtins), as the except clauses test them.
EXCEPTION_BASES(cls) ==
    CASE cls = "ReadTimeout"      -> {"ReadTimeout", "Timeout", "RequestException", "Exception"}
      [] cls = "ConnectTimeout"   -> {"ConnectTimeout", "ConnectionError", "Timeout",
                                      "RequestException", "Exception"}
      [] cls = "TooManyRedirects" -> {"TooManyRedirects", "RequestException", "Exception"}
      [] cls = "ConnectionError"  -> {"ConnectionError", "RequestException", "Exception"}
      [] cls = "InvalidSchema"    -> {"InvalidSchema", "RequestException", "ValueError", "Exception"}
      [] cls = "UnicodeError"     -> {"UnicodeError", "ValueError", "Exception"}
      [] OTHER                    -> {cls}

isinstance(cls, base) == base \in EXCEPTION_BASES(cls)

\* response.headers.get(key, default)
headers_get(headers, key, default) ==
    IF key \in DOMAIN headers THEN headers[key] ELSE default

\* What a call of check_url_worker produces: a returned tuple
\* (entry, is_valid, message), or an exception leaving the function.
\* The message is kept as the tag of the f-string that builds it.
Returned(entry, is_valid, message) ==
    [raised |-> "None", entry |-> entry, is_valid |-> is_valid, message |-> message]

Raised(entry, cls) ==
    [raised |-> cls, entry |-> entry, is_valid |-> FALSE, message |-> "raised"]

\* Mutant: the Content-Type is not lower-cased before it is compared.
classify_response_case_sensitive(entry, status_code, headers) ==
    LET content_type_header  == headers_get(headers, "Content-Type", <<>>)
        content_type_cleaned == strip(split_first(content_type_header, ";"))
    IN  IF status_code = 200
        THEN IF \E i \in DOMAIN VALID_CONTENT_TYPES :
                    VALID_CONTENT_TYPES[i] = content_type_cleaned
             THEN Returned(entry, TRUE, "valid")
             ELSE IF is_ignored_content_type(content_type_cleaned)
             THEN Returned(entry, FALSE, "invalid_not_stream_type")
             ELSE Returned(entry, TRUE, "possibly_valid_unknown_type")
        ELSE IF 300 <= status_code /\ status_code < 400
        THEN Returned(entry, FALSE, "invalid_redirect")
        ELSE IF 400 <= status_code /\ status_code < 600
        THEN Returned(entry, FALSE, "invalid_http_error")
        ELSE Returned(entry, FALSE, "invalid_unknown_status")

\* The try body once requests.head has returned (lines 88-105).
classify_response(entry, status_code, headers) ==
    LET content_type_header  == headers_get(headers, "Content-Type", <<>>)
        content_type_cleaned == strip(split_first(lower(content_type_header), ";"))
    IN  IF status_code = 200
        THEN IF \E i \in DOMAIN VALID_CONTENT_TYPES :
                    VALID_CONTENT_TYPES[i] = content_type_cleaned
             THEN Returned(entry, TRUE, "valid")
             ELSE IF is_ignored_content_type(content_type_cleaned)
             THEN Returned(entry, FALSE, "invalid_not_stream_type")
             ELSE Returned(entry, TRUE, "possibly_valid_unknown_type")
        ELSE IF 300 <= status_code /\ status_code < 400
        THEN Returned(entry, FALSE, "invalid_redirect")
        ELSE IF 400 <= status_code /\ status_code < 600
        THEN Returned(entry, FALSE, "invalid_http_error")
        ELSE Returned(entry, FALSE, "invalid_unknown_status")

\* Mutant: no catch-all clause after the requests exceptions.
handle_exception_no_catch_all(entry, cls) ==
    IF isinstance(cls, "Timeout")
    THEN Returned(entry, FALSE, "invalid_timeout")
    ELSE IF isinstance(cls, "TooManyRedirects")
    THEN Returned(entry, FALSE, "invalid_too_many_redirects")
    ELSE IF isinstance(cls, "ConnectionError")
    THEN Returned(entry, FALSE, "invalid_connection_error")
    ELSE IF isinstance(cls, "RequestException")
    THEN Returned(entry, FALSE, "invalid_request_error")
    ELSE Raised(entry, cls)

\* The except clauses, in source order (lines 106-115).
handle_exception(entry, cls) ==
    IF isinstance(cls, "Timeout")
    THEN Returned(entry, FALSE, "invalid_timeout")
    ELSE IF isinstance(cls, "TooManyRedirects")
    THEN Returned(entry, FALSE, "invalid_too_many_redirects")
    ELSE IF isinstance(cls, "ConnectionError")
    THEN Returned(entry, FALSE, "invalid_connection_error")
    ELSE IF isinstance(cls, "RequestException")
    THEN Returned(entry, FALSE, "invalid_request_error")
    ELSE IF isinstance(cls, "Exception")
    THEN Returned(entry, FALSE, "invalid_thread_unknown_error")
    ELSE Raised(entry, cls)

check_url_worker(entry_tuple, probe) ==
    LET entry == entry_tuple[1]
    IN  IF probe.raises = "None"
        THEN classify_response(entry, probe.status_code, probe.headers)
        ELSE handle_exception(entry, probe.raises)

\* --------------------------------------------------------- save_valid_m3u
\* sorted(valid_entries, key=original_line_number): a stable sort, as an
\* insertion sort that places an element after the elements of equal key.
RECURSIVE insert_by_line_number(_, _)
insert_by_line_number(sorted_list, entry) ==
    IF sorted_list = <<>> THEN <<entry>>
    ELSE IF entry.original_line_number < Head(sorted_list).original_line_number
    THEN <<entry>> \o sorted_list
    ELSE <<Head(sorted_list)>> \o insert_by_line_number(Tail(sorted_list), entry)

RECURSIVE sort_from(_, _, _)
sort_from(entries, i, acc) ==
    IF i > Len(entries) THEN acc
    ELSE sort_from(entries, i + 1, insert_by_line_number(acc, entries[i]))

\* Mutant: the entries are written in the order they were appended.
unsorted(valid_entries) == valid_entries

sorted_by_original_line_number(valid_entries) == sort_from(valid_entries, 1, <<>>)

EXTM3U_HEADER == <<"#","E","X","T","M","3","U">>

\* The write loop (lines 136-139): the header, then per entry its extinf line
\* when it has one, then its url line.
RECURSIVE write_entries(_, _, _)
write_entries(entries, i, f) ==
    IF i > Len(entries) THEN f
    ELSE write_entries(entries, i + 1,
             (IF entries[i].extinf # None THEN Append(f, entries[i].extinf) ELSE f)
             \o <<entries[i].url>>)

\* save_valid_m3u with the outcomes of its three system calls as arguments:
\* whether output_dir exists, whether makedirs succeeds, whether the file can
\* be opened and written.  A path is the sequence of its components.  The
\* result is the returned path (None on failure), the file written (None when
\* none was) and the order the entries were written in.
save_valid_m3u(valid_entries, output_dir, dir_exists, makedirs_ok, write_ok) ==
    IF valid_entries = <<>>
    THEN [path |-> None, file |-> None, written |-> <<>>]
    ELSE LET dir == IF output_dir # "" /\ ~dir_exists /\ ~makedirs_ok
                    THEN "." ELSE output_dir
             output_filepath == <<(IF dir # "" THEN dir ELSE "."), "PREFIX_DATE.m3u">>
             valid_entries_sorted == sorted_by_original_line_number(valid_entries)
         IN  IF write_ok
             THEN [path    |-> output_filepath,
                   file    |-> write_entries(valid_entries_sorted, 1, <<EXTM3U_HEADER>>),
                   written |-> valid_entries_sorted]
             ELSE [path |-> None, file |-> None, written |-> <<>>]

\* ------------------------------------------------------------------ state
VARIABLES
    pc,                      \* where __main__ is
    playlist,                \* the lines of the playlist source (environment)
    max_workers,             \* args.workers
    m3u_content_lines_str,
    all_m3u_entries,
    tasks_to_run,
    skipped_non_http_count,
    future_to_entry,         \* the futures, in submission order
    processed_count,
    valid_entries_to_save,
    invalid_links_count,
    summary_log,             \* the log items as a set (their order is dropped)
    head_requests,           \* HEAD requests issued so far, per original_line_number
    written_entries,         \* valid_entries_sorted of the write that succeeded
    output_file,             \* the lines of the output playlist, None if none
    saved_filepath,
    github_output,           \* lines appended to the GITHUB_OUTPUT file
    exit_code,               \* -1 while the process runs
    read_failed,             \* the fetch or read of the source raised
    worker_call              \* one call of check_url_worker: probe and result

vars == <<pc, playlist, max_workers, m3u_content_lines_str, all_m3u_entries,
          tasks_to_run, skipped_non_http_count, future_to_entry, processed_count,
          valid_entries_to_save, invalid_links_count, summary_log, head_requests,
          written_entries, output_file, saved_filepath, github_output, exit_code,
          read_failed, worker_call>>

\* args.timeout, args.workers defaults
DEFAULT_TIMEOUT == 10
DEFAULT_WORKERS == 10

\* ----------------------------------------------------------------- inputs
\* The lines the parser is checked on: blank and whitespace-only lines, a
\* comment, an indented comment, two #EXTINF lines, an indented #EXTINF line,
\* a lower-case "#extinf:" comment, a url and a url padded with whitespace.
ParserLineChoices == {
    <<>>,
    <<" ">>,
    <<"#","M">>,
    <<" ","#","M">>,
    <<"#","E","X","T","I","N","F",":","A">>,
    <<"\t","#","E","X","T","I","N","F",":","B"," ">>,
    <<"#","e","x","t","i","n","f",":","c">>,
    <<"h","t","t","p",":","/","/","a">>,
    <<" ","r","t","s","p",":","/","/","c"," ">> }

\* The lines a checked playlist is drawn from: a blank line, a comment, an
\* #EXTINF line, an HTTP url, an HTTPS url padded with whitespace, a non-HTTP
\* url and a url with an upper-case scheme.
LineChoices == {
    <<>>,
    <<"#","M">>,
    <<"#","E","X","T","I","N","F",":","A">>,
    <<"h","t","t","p",":","/","/","a">>,
    <<" ","h","t","t","p","s",":","/","/","b"," ">>,
    <<"r","t","s","p",":","/","/","c">>,
    <<"H","T","T","P",":","/","/","d">> }

RECURSIVE SeqsUpTo(_, _)
SeqsUpTo(S, n) ==
    IF n = 0 THEN {<<>>}
    ELSE LET shorter == SeqsUpTo(S, n - 1)
         IN  shorter \cup {Append(q, x) : q \in shorter, x \in S}

Playlists == SeqsUpTo(LineChoices, MaxLines)

WorkerChoices == {2, DEFAULT_WORKERS}

NoHeaders == <<>>
ContentType(value) == [k \in {"Content-Type"} |-> value]

Response(status_code, headers) ==
    [raises |-> "None", status_code |-> status_code, headers |-> headers]

Failure(cls) == [raises |-> cls, status_code |-> 0, headers |-> NoHeaders]

\* The probe outcomes the pool's workers draw from.
PoolProbes == {
    Response(200, ContentType(<<"v","i","d","e","o","/","m","p","2","t">>)),
    Response(200, NoHeaders),
    Failure("ReadTimeout") }

\* ------------------------------------------------------------------- Init
NoCall == [args |-> <<>>, probe |-> Failure("None"), ret |-> <<>>]

\* The variables of __main__ before it has run.
Idle ==
    /\ m3u_content_lines_str = <<>>
    /\ all_m3u_entries = <<>>
    /\ tasks_to_run = <<>>
    /\ skipped_non_http_count = 0
    /\ future_to_entry = <<>>
    /\ processed_count = 0
    /\ valid_entries_to_save = <<>>
    /\ invalid_links_count = 0
    /\ summary_log = {}
    /\ head_requests = <<>>
    /\ written_entries = <<>>
    /\ output_file = None
    /\ saved_filepath = None
    /\ github_output = <<>>
    /\ exit_code = -1
    /\ read_failed = FALSE

Init ==
    /\ pc = "load"
    /\ playlist \in Playlists
    /\ max_workers \in WorkerChoices
    /\ worker_call = NoCall
    /\ Idle

\* sys.exit(code)
sys_exit(code) ==
    /\ pc' = "exited"
    /\ exit_code' = code

\* ---------------------------------------------------------------- __main__
\* Line 167: empty content is fatal.
after_load(content_lines) ==
    IF content_lines = <<>>
    THEN [pc |-> "exited", exit_code |-> 1]
    ELSE [pc |-> "parse", exit_code |-> -1]

\* Lines 161-169: fetch_m3u_from_url or read_m3u_from_file, by the form of
\* args.m3u_source.  Either the source is read and split into lines, or the
\* read fails and the function reports it and exits with 1.
load_m3u ==
    /\ pc = "load"
    /\ \E from_url \in BOOLEAN, read_ok \in BOOLEAN :
         IF ~read_ok
         THEN /\ read_failed' = TRUE
              /\ sys_exit(1)
              /\ UNCHANGED m3u_content_lines_str
         ELSE /\ m3u_content_lines_str' = playlist
              /\ pc' = after_load(playlist).pc
              /\ exit_code' = after_load(playlist).exit_code
              /\ UNCHANGED read_failed
    /\ UNCHANGED <<playlist, max_workers, all_m3u_entries, tasks_to_run,
                   skipped_non_http_count, future_to_entry, processed_count,
                   valid_entries_to_save, invalid_links_count, summary_log,
                   head_requests, written_entries, output_file, saved_filepath,
                   github_output, worker_call>>

\* Mutant: a playlist without entries is fatal.
after_parse_fatal(entries) ==
    IF entries = <<>>
    THEN [pc |-> "exited", exit_code |-> 1]
    ELSE [pc |-> "prepare", exit_code |-> -1]

\* Line 173: a playlist without entries ends the run with 0.
after_parse(entries) ==
    IF entries = <<>>
    THEN [pc |-> "exited", exit_code |-> 0]
    ELSE [pc |-> "prepare", exit_code |-> -1]

\* Lines 171-175.
parse_main ==
    /\ pc = "parse"
    /\ all_m3u_entries' = parse_m3u_content_with_extinf_str(m3u_content_lines_str)
    /\ pc' = after_parse(all_m3u_entries').pc
    /\ exit_code' = after_parse(all_m3u_entries').exit_code
    /\ UNCHANGED <<playlist, max_workers, m3u_content_lines_str, tasks_to_run,
                   skipped_non_http_count, future_to_entry, processed_count,
                   valid_entries_to_save, invalid_links_count, summary_log,
                   head_requests, written_entries, output_file, saved_filepath,
                   github_output, read_failed, worker_call>>

\* Mutant: the scheme is compared without regard to case.
is_http_url_any_case(url) ==
    startswith(lower(url), HTTP_PREFIX) \/ startswith(lower(url), HTTPS_PREFIX)

is_http_url(url) == startswith(url, HTTP_PREFIX) \/ startswith(url, HTTPS_PREFIX)

\* The loop of lines 185-190, from entry i on.
RECURSIVE prepare_loop(_, _, _)
prepare_loop(entries, i, acc) ==
    IF i > Len(entries) THEN acc
    ELSE LET entry == entries[i]
         IN  IF is_http_url(entry.url)
             THEN prepare_loop(entries, i + 1,
                      [acc EXCEPT !.tasks = Append(@, <<entry, DEFAULT_TIMEOUT>>)])
             ELSE prepare_loop(entries, i + 1,
                      [acc EXCEPT !.skipped = @ + 1,
                                  !.log = @ \cup {[entry |-> entry.original_line_number,
                                                   mark |-> "~",
                                                   message |-> "skipped_non_http"]}])

\* Lines 177-202: the counters, the task list and the submission of one
\* future per task.
prepare_tasks ==
    /\ pc = "prepare"
    /\ LET r == prepare_loop(all_m3u_entries, 1,
                             [tasks |-> <<>>, skipped |-> 0, log |-> {}])
       IN  /\ tasks_to_run' = r.tasks
           /\ skipped_non_http_count' = r.skipped
           /\ summary_log' = r.log
           /\ future_to_entry' =
                  [i \in 1..Len(r.tasks) |->
                      [entry |-> r.tasks[i][1], state |-> "pending", result |-> <<>>]]
    /\ valid_entries_to_save' = <<>>
    /\ invalid_links_count' = 0
    /\ processed_count' = 0
    /\ head_requests' = [n \in 1..Len(all_m3u_entries) |-> 0]
    /\ pc' = "checking"
    /\ UNCHANGED <<playlist, max_workers, m3u_content_lines_str, all_m3u_entries,
                   written_entries, output_file, saved_filepath, github_output,
                   exit_code, read_failed, worker_call>>

running_count == Cardinality({i \in DOMAIN future_to_entry :
                                 future_to_entry[i].state = "running"})

\* A pool thread takes the oldest queued task (the executor's queue is FIFO,
\* at most max_workers threads) and check_url_worker issues its HEAD request
\* (lines 81-87).
worker_start(i) ==
    /\ pc = "checking"
    /\ future_to_entry[i].state = "pending"
    /\ \A j \in 1..(i - 1) : future_to_entry[j].state # "pending"
    /\ running_count < max_workers
    /\ future_to_entry' = [future_to_entry EXCEPT ![i].state = "running"]
    /\ head_requests' =
           [head_requests EXCEPT ![tasks_to_run[i][1].original_line_number] = @ + 1]
    /\ UNCHANGED <<pc, playlist, max_workers, m3u_content_lines_str, all_m3u_entries,
                   tasks_to_run, skipped_non_http_count, processed_count,
                   valid_entries_to_save, invalid_links_count, summary_log,
                   written_entries, output_file, saved_filepath, github_output,
                   exit_code, read_failed, worker_call>>

\* requests.head returns or raises, check_url_worker classifies the outcome
\* (lines 88-115) and the future completes with what the call produced.
worker_finish(i) ==
    /\ pc = "checking"
    /\ future_to_entry[i].state = "running"
    /\ \E probe \in PoolProbes :
         future_to_entry' =
             [future_to_entry EXCEPT ![i].state = "done",
                                     ![i].result = check_url_worker(tasks_to_run[i], probe)]
    /\ UNCHANGED <<pc, playlist, max_workers, m3u_content_lines_str, all_m3u_entries,
                   tasks_to_run, skipped_non_http_count, processed_count,
                   valid_entries_to_save, invalid_links_count, summary_log,
                   head_requests, written_entries, output_file, saved_filepath,
                   github_output, exit_code, read_failed, worker_call>>

\* Mutant: the entry is appended as soon as its result says valid, before
\* the progress print that may still raise.
collect_body_append_before_print(acc, original_entry, result, print_ok) ==
    LET counted  == [acc EXCEPT !.processed = @ + 1]
        appended == IF result.raised = "None" /\ result.is_valid
                    THEN [counted EXCEPT !.valid = Append(@, result.entry)]
                    ELSE counted
    IN  IF result.raised # "None" \/ ~print_ok
        THEN [appended EXCEPT
                 !.invalid = @ + 1,
                 !.log = @ \cup {[entry |-> original_entry.original_line_number,
                                  mark |-> "x",
                                  message |-> "main_control_error"]}]
        ELSE IF result.is_valid
        THEN [appended EXCEPT
                 !.log = @ \cup {[entry |-> result.entry.original_line_number,
                                  mark |-> "v",
                                  message |-> result.message]}]
        ELSE [appended EXCEPT
                 !.invalid = @ + 1,
                 !.log = @ \cup {[entry |-> result.entry.original_line_number,
                                  mark |-> "x",
                                  message |-> result.message]}]

\* Mutant: the except clause logs the failure without counting it.
collect_body_uncounted_failure(acc, original_entry, result, print_ok) ==
    LET counted == [acc EXCEPT !.processed = @ + 1]
    IN  IF result.raised # "None" \/ ~print_ok
        THEN [counted EXCEPT
                 !.log = @ \cup {[entry |-> original_entry.original_line_number,
                                  mark |-> "x",
                                  message |-> "main_control_error"]}]
        ELSE IF result.is_valid
        THEN [counted EXCEPT
                 !.valid = Append(@, result.entry),
                 !.log = @ \cup {[entry |-> result.entry.original_line_number,
                                  mark |-> "v",
                                  message |-> result.message]}]
        ELSE [counted EXCEPT
                 !.invalid = @ + 1,
                 !.log = @ \cup {[entry |-> result.entry.original_line_number,
                                  mark |-> "x",
                                  message |-> result.message]}]

\* Mutant: processed_count is incremented inside the try, after the result
\* has been obtained and printed.
collect_body_count_on_success(acc, original_entry, result, print_ok) ==
    IF result.raised # "None" \/ ~print_ok
    THEN [acc EXCEPT
             !.invalid = @ + 1,
             !.log = @ \cup {[entry |-> original_entry.original_line_number,
                              mark |-> "x",
                              message |-> "main_control_error"]}]
    ELSE IF result.is_valid
    THEN [acc EXCEPT
             !.processed = @ + 1,
             !.valid = Append(@, result.entry),
             !.log = @ \cup {[entry |-> result.entry.original_line_number,
                              mark |-> "v",
                              message |-> result.message]}]
    ELSE [acc EXCEPT
             !.processed = @ + 1,
             !.invalid = @ + 1,
             !.log = @ \cup {[entry |-> result.entry.original_line_number,
                              mark |-> "x",
                              message |-> result.message]}]

\* The body of the as_completed loop (lines 204-226) for one completed
\* future, on the loop's accumulators acc = [processed, valid, invalid, log].
\* future.result() re-raises what the worker raised; the progress print of
\* line 211 is inside the try as well and may raise (print_ok = FALSE).
\* Either lands in the except clause of line 220.
collect_body(acc, original_entry, result, print_ok) ==
    LET counted == [acc EXCEPT !.processed = @ + 1]
    IN  IF result.raised # "None" \/ ~print_ok
        THEN [counted EXCEPT
                 !.invalid = @ + 1,
                 !.log = @ \cup {[entry |-> original_entry.original_line_number,
                                  mark |-> "x",
                                  message |-> "main_control_error"]}]
        ELSE IF result.is_valid
        THEN [counted EXCEPT
                 !.valid = Append(@, result.entry),
                 !.log = @ \cup {[entry |-> result.entry.original_line_number,
                                  mark |-> "v",
                                  message |-> result.message]}]
        ELSE [counted EXCEPT
                 !.invalid = @ + 1,
                 !.log = @ \cup {[entry |-> result.entry.original_line_number,
                                  mark |-> "x",
                                  message |-> result.message]}]

\* as_completed yields a completed future not yet yielded (in no fixed order
\* among those already complete) and the loop body handles it.  Nothing reads
\* the future's result after its iteration.
collect_result(i) ==
    /\ pc = "checking"
    /\ future_to_entry[i].state = "done"
    /\ \E print_ok \in BOOLEAN :
         LET r == collect_body([processed |-> processed_count,
                                valid     |-> valid_entries_to_save,
                                invalid   |-> invalid_links_count,
                                log       |-> summary_log],
                               future_to_entry[i].entry,
                               future_to_entry[i].result,
                               print_ok)
         IN  /\ processed_count' = r.processed
             /\ valid_entries_to_save' = r.valid
             /\ invalid_links_count' = r.invalid
             /\ summary_log' = r.log
    /\ future_to_entry' = [future_to_entry EXCEPT ![i].state = "collected",
                                                  ![i].result = <<>>]
    /\ UNCHANGED <<pc, playlist, max_workers, m3u_content_lines_str, all_m3u_entries,
                   tasks_to_run, skipped_non_http_count, head_requests,
                   written_entries, output_file, saved_filepath, github_output,
                   exit_code, read_failed, worker_call>>

OutputDirs == {"out"}

\* Mutant: skipped entries count towards the failure exit status.
exit_status_counting_skipped(invalid_count, tasks, entries) ==
    IF invalid_count + (Len(entries) - Len(tasks)) > 0 THEN 1 ELSE 0

\* The exit status chosen by lines 270-278.
exit_status(invalid_count, tasks, entries) ==
    IF invalid_count > 0 /\ Len(tasks) > 0 THEN 1
    ELSE IF Len(tasks) = 0 /\ Len(entries) > 0 THEN 0
    ELSE 0

\* Lines 227-278, once as_completed is exhausted (every future yielded) and
\* the with block has ended: print the summary, save the valid entries,
\* append the saved path to GITHUB_OUTPUT when a file was saved and the
\* variable is set, and exit.
finish_main ==
    /\ pc = "checking"
    /\ \A i \in DOMAIN future_to_entry : future_to_entry[i].state = "collected"
    /\ \E output_dir \in OutputDirs, dir_exists \in BOOLEAN, makedirs_ok \in BOOLEAN,
          write_ok \in BOOLEAN, github_output_set \in BOOLEAN :
         LET saved == IF valid_entries_to_save # <<>>
                      THEN save_valid_m3u(valid_entries_to_save, output_dir,
                                          dir_exists, makedirs_ok, write_ok)
                      ELSE [path |-> None, file |-> None, written |-> <<>>]
         IN  /\ saved_filepath' = saved.path
             /\ output_file' = saved.file
             /\ written_entries' = saved.written
             /\ github_output' =
                    IF saved.path # None /\ github_output_set
                    THEN Append(github_output, <<"saved_m3u_path", saved.path>>)
                    ELSE github_output
    /\ sys_exit(exit_status(invalid_links_count, tasks_to_run, all_m3u_entries))
    /\ UNCHANGED <<playlist, max_workers, m3u_content_lines_str, all_m3u_entries,
                   tasks_to_run, skipped_non_http_count, future_to_entry,
                   processed_count, valid_entries_to_save, invalid_links_count,
                   summary_log, head_requests, read_failed, worker_call>>

Next ==
    \/ load_m3u
    \/ parse_main
    \/ prepare_tasks
    \/ \E i \in DOMAIN future_to_entry : worker_start(i)
    \/ \E i \in DOMAIN future_to_entry : worker_finish(i)
    \/ \E i \in DOMAIN future_to_entry : collect_result(i)
    \/ finish_main

Spec == Init /\ [][Next]_vars

\* ------------------------------------------------- the parser on its own
\* Longest input of the parser drawn in InitParse.
MaxParseLines == 4

InitParse ==
    /\ pc = "parse_call"
    /\ playlist \in SeqsUpTo(ParserLineChoices, MaxParseLines)
    /\ max_workers = DEFAULT_WORKERS
    /\ worker_call = NoCall
    /\ Idle

call_parse ==
    /\ pc = "parse_call"
    /\ all_m3u_entries' = parse_m3u_content_with_extinf_str(playlist)
    /\ pc' = "parse_done"
    /\ UNCHANGED <<playlist, max_workers, m3u_content_lines_str, tasks_to_run,
                   skipped_non_http_count, future_to_entry, processed_count,
                   valid_entries_to_save, invalid_links_count, summary_log,
                   head_requests, written_entries, output_file, saved_filepath,
                   github_output, exit_code, read_failed, worker_call>>

SpecParse == InitParse /\ [][call_parse]_vars

\* --------------------------------------------- the classifier on its own
StatusChoices == {100, 199, 200, 201, 204, 299, 300, 301, 399, 400, 404, 500, 599, 600}

HeaderChoices == {
    NoHeaders,
    ContentType(<<>>),
    ContentType(<<";">>),
    ContentType(<<"v","i","d","e","o","/","m","p","2","t">>),
    ContentType(<<"V","i","d","e","o","/","M","P","2","T">>),
    ContentType(<<"v","i","d","e","o","/","m","p","4",";","q">>),
    ContentType(<<"v","i","d","e","o","/","m","p","4"," ",";","q">>),
    ContentType(<<"a","p","p","l","i","c","a","t","i","o","n","/","x","-","m","p","e","g","U","R","L">>),
    ContentType(<<"t","e","x","t","/","h","t","m","l">>),
    ContentType(<<"T","E","X","T","/","H","T","M","L",";"," ","c">>),
    ContentType(<<"t","e","x","t","/","h","t","m">>),
    ContentType(<<"t","e","x","t","/","x","m","l","x">>),
    ContentType(<<"i","m","a","g","e","/">>),
    ContentType(<<"i","m","a","g","e","/","p","n","g">>),
    ContentType(<<"a","/","w">>) }

ExceptionChoices == {"ReadTimeout", "ConnectTimeout", "TooManyRedirects",
                     "ConnectionError", "InvalidSchema", "UnicodeError"}

ClassifyProbes ==
    {Response(sc, h) : sc \in StatusChoices, h \in HeaderChoices}
    \cup {Failure(cls) : cls \in ExceptionChoices}

EntryChoices == {
    [extinf |-> None, url |-> <<"h","t","t","p",":","/","/","a">>,
     original_line_number |-> 1],
    [extinf |-> <<"#","E","X","T","I","N","F",":","A">>,
     url |-> <<"h","t","t","p","s",":","/","/","b">>, original_line_number |-> 2] }

InitClassify ==
    /\ pc = "worker_call"
    /\ playlist = <<>>
    /\ max_workers = DEFAULT_WORKERS
    /\ \E entry \in EntryChoices, probe \in ClassifyProbes :
         worker_call = [args |-> <<entry, DEFAULT_TIMEOUT>>, probe |-> probe, ret |-> <<>>]
    /\ Idle

call_worker ==
    /\ pc = "worker_call"
    /\ worker_call' =
           [worker_call EXCEPT !.ret = check_url_worker(worker_call.args, worker_call.probe)]
    /\ pc' = "worker_done"
    /\ UNCHANGED <<playlist, max_workers, m3u_content_lines_str, all_m3u_entries,
                   tasks_to_run, skipped_non_http_count, future_to_entry,
                   processed_count, valid_entries_to_save, invalid_links_count,
                   summary_log, head_requests, written_entries, output_file,
                   saved_filepath, github_output, exit_code, read_failed>>

SpecClassify == InitClassify /\ [][call_worker]_vars

\* =================================================================== claims
\* ---------------------------------------------------- vocabulary of claims
Max(S) == CHOOSE x \in S : \A y \in S : y <= x

\* The k-th smallest element of a set of numbers.
Kth(S, k) == CHOOSE i \in S : Cardinality({j \in S : j <= i}) = k

\* The verdict the run recorded for the entry with original_line_number n.
Verdict(n) ==
    LET items == {item \in summary_log : item.entry = n}
    IN  IF \E item \in items : item.mark = "~" THEN "Skipped"
        ELSE IF \E item \in items : item.mark = "x" THEN "Invalid"
        ELSE IF \E item \in items : item.mark = "v" /\ item.message = "valid" THEN "Valid"
        ELSE IF \E item \in items : item.mark = "v" THEN "PossiblyValid"
        ELSE "NotYet"

\* The collection of entry n's result failed at the pool layer.
CollectionFailed(n) ==
    \E item \in summary_log : item.entry = n /\ item.message = "main_control_error"

\* The checking loop has run and finished.
CheckingDone ==
    /\ pc \in {"checking", "exited"}
    /\ all_m3u_entries # <<>>
    /\ \A i \in DOMAIN future_to_entry : future_to_entry[i].state = "collected"

OccurrencesInValid(n) ==
    Cardinality({i \in DOMAIN valid_entries_to_save :
                    valid_entries_to_save[i].original_line_number = n})

IsUrlLine(l) == l = <<>> \/ Head(l) # "#"

\* ----------------------------------------------------------------------- C1
\* C1: whenever an output playlist has been written, its entries are in
\* strictly ascending original_line_number order, they are the entries of
\* valid_entries_to_save whatever order those were appended in, and the url
\* lines of the file are the urls of the entries in that order.
C1_SavedInAscendingOrder ==
    output_file # None =>
        /\ \A i, j \in DOMAIN written_entries :
               i < j => written_entries[i].original_line_number
                            < written_entries[j].original_line_number
        /\ Len(written_entries) = Len(valid_entries_to_save)
        /\ {written_entries[i] : i \in DOMAIN written_entries}
               = {valid_entries_to_save[i] : i \in DOMAIN valid_entries_to_save}
        /\ SelectSeq(output_file, IsUrlLine)
               = [i \in DOMAIN written_entries |-> written_entries[i].url]

\* A file was written from results that arrived out of playlist order.
C1_Witness ==
    /\ output_file # None
    /\ Len(valid_entries_to_save) >= 2
    /\ valid_entries_to_save[1].original_line_number
           > valid_entries_to_save[2].original_line_number

\* ----------------------------------------------------------------------- C2
\* C2: whenever an output playlist has been written, the entries written are
\* exactly the parsed entries whose verdict is Valid or PossiblyValid, each
\* once: none that is Invalid, Skipped or whose result collection failed,
\* and entries that share a url are all there.
C2_SavedExactlyTheValid ==
    output_file # None =>
        /\ \A i, j \in DOMAIN written_entries :
               i # j => written_entries[i] # written_entries[j]
        /\ {written_entries[i] : i \in DOMAIN written_entries}
               = {all_m3u_entries[n] : n \in {m \in DOMAIN all_m3u_entries :
                                               Verdict(m) \in {"Valid", "PossiblyValid"}}}
        /\ \A i \in DOMAIN written_entries :
               ~CollectionFailed(written_entries[i].original_line_number)
        /\ Len(SelectSeq(output_file, IsUrlLine)) = Len(written_entries)

\* A file was written that holds two entries of the same url, while the
\* collection of a third entry's result failed.
C2_Witness ==
    /\ output_file # None
    /\ \E i, j \in DOMAIN written_entries :
           i # j /\ written_entries[i].url = written_entries[j].url
    /\ \E n \in DOMAIN all_m3u_entries : CollectionFailed(n)

\* ----------------------------------------------------------------------- C3
\* C3: once the checking loop has finished, the valid list (Valid and
\* PossiblyValid), the invalid counter and the skipped counter add up to the
\* number of parsed entries, and every parsed entry is counted in exactly one
\* of the three.
C3_CountersPartitionEntries ==
    CheckingDone =>
        /\ Len(valid_entries_to_save) + invalid_links_count + skipped_non_http_count
               = Len(all_m3u_entries)
        /\ invalid_links_count
               = Cardinality({n \in DOMAIN all_m3u_entries : Verdict(n) = "Invalid"})
        /\ skipped_non_http_count
               = Cardinality({n \in DOMAIN all_m3u_entries : Verdict(n) = "Skipped"})
        /\ \A n \in DOMAIN all_m3u_entries :
               OccurrencesInValid(n)
                   = (IF Verdict(n) \in {"Valid", "PossiblyValid"} THEN 1 ELSE 0)

\* A finished loop with a valid entry, a skipped entry and an entry whose
\* result collection failed.
C3_Witness ==
    /\ CheckingDone
    /\ valid_entries_to_save # <<>>
    /\ skipped_non_http_count > 0
    /\ \E n \in DOMAIN all_m3u_entries : CollectionFailed(n)

\* ----------------------------------------------------------------------- C4
\* The url begins with the characters of 'http://' or of 'https://'.
HasLiteralHttpPrefix(url) ==
    \/ Len(url) >= Len(HTTP_PREFIX)
       /\ \A k \in DOMAIN HTTP_PREFIX : url[k] = HTTP_PREFIX[k]
    \/ Len(url) >= Len(HTTPS_PREFIX)
       /\ \A k \in DOMAIN HTTPS_PREFIX : url[k] = HTTPS_PREFIX[k]

EntryHasHttpUrl(entry) == HasLiteralHttpPrefix(entry.url)

\* C4: once the tasks are prepared, an entry is Skipped iff its url does not
\* start with 'http://' or 'https://'; the tasks submitted are exactly the
\* other entries, one future each; no HEAD request is ever issued for a
\* skipped entry, at most one for any other, and exactly one by the time the
\* loop has finished.
C4_SkippedIffNotHttp ==
    (pc \in {"checking", "exited"} /\ all_m3u_entries # <<>>) =>
        /\ \A n \in DOMAIN all_m3u_entries :
               (Verdict(n) = "Skipped") <=> ~EntryHasHttpUrl(all_m3u_entries[n])
        /\ skipped_non_http_count
               = Cardinality({n \in DOMAIN all_m3u_entries :
                                 ~EntryHasHttpUrl(all_m3u_entries[n])})
        /\ [i \in DOMAIN tasks_to_run |-> tasks_to_run[i][1]]
               = SelectSeq(all_m3u_entries, EntryHasHttpUrl)
        /\ [i \in DOMAIN future_to_entry |-> future_to_entry[i].entry]
               = SelectSeq(all_m3u_entries, EntryHasHttpUrl)
        /\ \A n \in DOMAIN all_m3u_entries :
               head_requests[n] <= (IF EntryHasHttpUrl(all_m3u_entries[n]) THEN 1 ELSE 0)
        /\ CheckingDone =>
               \A n \in DOMAIN all_m3u_entries :
                   EntryHasHttpUrl(all_m3u_entries[n]) => head_requests[n] = 1

\* A finished run over a playlist with a probed url and a skipped url whose
\* scheme differs from 'http://' only in case.
C4_Witness ==
    /\ CheckingDone
    /\ tasks_to_run # <<>>
    /\ \E n \in DOMAIN all_m3u_entries :
           /\ lower(all_m3u_entries[n].url) # all_m3u_entries[n].url
           /\ is_http_url(lower(all_m3u_entries[n].url))
           /\ Verdict(n) = "Skipped"
           /\ head_requests[n] = 0

\* ----------------------------------------------------------------------- C5
\* What the parser is to return for the input `playlist`, given which lines
\* count as entries and which as #EXTINF lines: one entry per entry line, in
\* input order; the k-th has original_line_number k, the text of its line
\* (less surrounding whitespace) as url and, as metadata, the text of the
\* last #EXTINF line between the previous entry line and its own (None when
\* there is none).
ParserContract(IsEntryLine(_), IsExtinfLine(_)) ==
    LET entry_lines == {i \in DOMAIN playlist : IsEntryLine(playlist[i])}
    IN  /\ Len(all_m3u_entries) = Cardinality(entry_lines)
        /\ \A k \in DOMAIN all_m3u_entries :
               LET i        == Kth(entry_lines, k)
                   earlier  == {j \in entry_lines : j < i}
                   previous == IF earlier = {} THEN 0 ELSE Max(earlier)
                   pending  == {j \in (previous + 1)..(i - 1) : IsExtinfLine(playlist[j])}
               IN  /\ all_m3u_entries[k].original_line_number = k
                   /\ all_m3u_entries[k].url = strip(playlist[i])
                   /\ all_m3u_entries[k].extinf
                          = (IF pending = {} THEN None ELSE strip(playlist[Max(pending)]))

\* The lines as the claim words them: a blank line is empty or whitespace
\* only, and the markers are looked for at the start of the line as given.
IsBlankLine(l) == \A k \in DOMAIN l : l[k] \in WHITESPACE
StartsWithHash(l) == l # <<>> /\ l[1] = "#"
IsEntryLineAsGiven(l) == ~IsBlankLine(l) /\ ~StartsWithHash(l)
IsExtinfLineAsGiven(l) == startswith(l, EXTINF_PREFIX)

\* The lines once surrounding whitespace has been removed.
IsEntryLineStripped(l) == IsEntryLineAsGiven(strip(l))
IsExtinfLineStripped(l) == IsExtinfLineAsGiven(strip(l))

\* C5 as stated: one entry per non-blank line that does not start with '#'.
C5_AsStated ==
    pc = "parse_done" => ParserContract(IsEntryLineAsGiven, IsExtinfLineAsGiven)

\* C5 (amended): the parser's contract holds of the lines with their leading
\* and trailing whitespace removed: one entry per line that is then neither
\* empty nor starts with '#', numbered 1, 2, ... in input order, carrying the
\* stripped text as url and the most recent (stripped) '#EXTINF:' line since
\* the previous entry as metadata; blank and comment lines do not clear the
\* pending metadata, a later #EXTINF line replaces it, an entry consumes it.
C5_ParserContractOnStrippedLines ==
    pc = "parse_done" => ParserContract(IsEntryLineStripped, IsExtinfLineStripped)

\* A parse where an indented #EXTINF line replaced an earlier pending one,
\* a comment followed, and the entry after it carries the replacement.
C5_Witness ==
    /\ pc = "parse_done"
    /\ \E i, j, k, l \in DOMAIN playlist :
           /\ i < j /\ j < k /\ k < l
           /\ IsExtinfLineAsGiven(playlist[i])
           /\ IsExtinfLineStripped(playlist[j]) /\ ~IsExtinfLineAsGiven(playlist[j])
           /\ StartsWithHash(playlist[k]) /\ ~IsExtinfLineAsGiven(playlist[k])
           /\ IsEntryLineStripped(playlist[l])
           /\ Len(all_m3u_entries) = 1
           /\ all_m3u_entries[1].extinf = strip(playlist[j])

\* ----------------------------------------------------------------------- C6
\* The verdict a call of check_url_worker stands for.
VerdictOfCall(ret) ==
    IF ret.raised # "None" THEN "Raised"
    ELSE IF ~ret.is_valid THEN "Invalid"
    ELSE IF ret.message = "valid" THEN "Valid"
    ELSE "PossiblyValid"

RecognizedValidStreamTypes ==
    {VALID_CONTENT_TYPES[i] : i \in DOMAIN VALID_CONTENT_TYPES}

\* text/html, application/json, text/plain, image/*, application/pdf,
\* application/xml, text/xml, as prefixes.
IgnoredTypePrefixes == {
    <<"t","e","x","t","/","h","t","m","l">>,
    <<"a","p","p","l","i","c","a","t","i","o","n","/","j","s","o","n">>,
    <<"t","e","x","t","/","p","l","a","i","n">>,
    <<"i","m","a","g","e","/">>,
    <<"a","p","p","l","i","c","a","t","i","o","n","/","p","d","f">>,
    <<"a","p","p","l","i","c","a","t","i","o","n","/","x","m","l">>,
    <<"t","e","x","t","/","x","m","l">> }

DecisionTable(status_code, type) ==
    IF status_code = 200
    THEN IF type \in RecognizedValidStreamTypes THEN "Valid"
         ELSE IF \E prefix \in IgnoredTypePrefixes : startswith(type, prefix) THEN "Invalid"
         ELSE "PossiblyValid"
    ELSE "Invalid"

\* The Content-Type of the probed response ('' when absent), lower-cased and
\* with any ';' parameter suffix removed.
LoweredWithoutParameters ==
    split_first(lower(headers_get(worker_call.probe.headers, "Content-Type", <<>>)), ";")

ResponseClassified == pc = "worker_done" /\ worker_call.probe.raises = "None"

\* C6 as stated: the verdict is the decision table's, of the status code and
\* the Content-Type lower-cased with its ';' parameter suffix removed.
C6_AsStated ==
    ResponseClassified =>
        VerdictOfCall(worker_call.ret)
            = DecisionTable(worker_call.probe.status_code, LoweredWithoutParameters)

\* C6 (amended): the verdict is the decision table's, of the status code and
\* the Content-Type lower-cased, with its ';' parameter suffix removed and
\* then the surrounding whitespace removed.
C6_DecisionTableOnTrimmedType ==
    ResponseClassified =>
        VerdictOfCall(worker_call.ret)
            = DecisionTable(worker_call.probe.status_code, strip(LoweredWithoutParameters))

\* A 200 response whose recognized type is followed by whitespace before the
\* ';' of its parameters, classified Valid.
C6_Witness ==
    /\ ResponseClassified
    /\ worker_call.probe.status_code = 200
    /\ LoweredWithoutParameters # strip(LoweredWithoutParameters)
    /\ strip(LoweredWithoutParameters) \in RecognizedValidStreamTypes
    /\ VerdictOfCall(worker_call.ret) = "Valid"

\* ----------------------------------------------------------------------- C7
\* C7: whatever the probe does, check_url_worker returns a verdict for the
\* entry it was given and raises nothing; when the probe raised, the verdict
\* is Invalid.
C7_WorkerNeverRaises ==
    pc = "worker_done" =>
        /\ worker_call.ret.raised = "None"
        /\ worker_call.ret.entry = worker_call.args[1]
        /\ worker_call.probe.raises # "None" => ~worker_call.ret.is_valid

\* A probe that raised an exception outside the requests hierarchy.
C7_Witness ==
    /\ pc = "worker_done"
    /\ worker_call.probe.raises # "None"
    /\ ~isinstance(worker_call.probe.raises, "RequestException")
    /\ worker_call.ret.message = "invalid_thread_unknown_error"

\* ----------------------------------------------------------------------- C8
\* C8: a run that parsed at least one entry and has exited, exited with 1 if
\* some checked entry was judged Invalid and with 0 otherwise, whatever was
\* skipped and whether or not the output file could be written.
C8_ExitCodeFollowsInvalid ==
    (pc = "exited" /\ all_m3u_entries # <<>>) =>
        exit_code = (IF \E n \in DOMAIN all_m3u_entries : Verdict(n) = "Invalid"
                     THEN 1 ELSE 0)

\* A run that exited with 0 although an entry was skipped and the write of
\* the output file failed.
C8_Witness ==
    /\ pc = "exited"
    /\ exit_code = 0
    /\ valid_entries_to_save # <<>>
    /\ output_file = None
    /\ skipped_non_http_count > 0

\* ----------------------------------------------------------------------- C9
\* The source was read without error and holds no entry.
ReadWithoutEntries ==
    /\ pc = "exited"
    /\ ~read_failed
    /\ parse_m3u_content_with_extinf_str(playlist) = <<>>

NothingProbedOrWritten ==
    /\ tasks_to_run = <<>>
    /\ future_to_entry = <<>>
    /\ \A n \in DOMAIN head_requests : head_requests[n] = 0
    /\ output_file = None
    /\ saved_filepath = None

\* C9 as stated: a playlist read without error that parses to zero entries,
\* of any number of lines including none, ends with exit code 0, no probe and
\* no output file.
C9_AsStated ==
    ReadWithoutEntries => (exit_code = 0 /\ NothingProbedOrWritten)

\* C9 (amended): a playlist read without error that has at least one line
\* and parses to zero entries ends with exit code 0, no probe and no output
\* file; exit code 1 before checking is for a playlist that could not be
\* read or that has no line at all.
C9_NoEntriesIsNotFatalUnlessNoLines ==
    /\ (ReadWithoutEntries /\ playlist # <<>>) =>
           (exit_code = 0 /\ NothingProbedOrWritten)
    /\ (ReadWithoutEntries /\ playlist = <<>>) =>
           (exit_code = 1 /\ NothingProbedOrWritten)
    /\ (pc = "exited" /\ read_failed) =>
           (exit_code = 1 /\ NothingProbedOrWritten)
    /\ (pc = "exited" /\ exit_code = 1 /\ all_m3u_entries = <<>>) =>
           (read_failed \/ playlist = <<>>)

\* A playlist of a blank line, a comment and an #EXTINF line, read and
\* parsed to nothing, exit code 0.
C9_Witness ==
    /\ ReadWithoutEntries
    /\ exit_code = 0
    /\ \E i, j, k \in DOMAIN playlist :
           /\ IsBlankLine(playlist[i])
           /\ IsExtinfLineAsGiven(playlist[j])
           /\ StartsWithHash(playlist[k]) /\ ~IsExtinfLineAsGiven(playlist[k])

\* ---------------------------------------------------------------------- C10
\* C10: processed_count is at every moment the number of futures collected,
\* so it equals the number of submitted tasks when the loop ends; an entry
\* whose result collection failed is logged as Invalid and is not in the
\* valid list; and when the loop ends the invalid counter is the number of
\* entries judged Invalid and every submitted entry has a verdict.
C10_CollectionFailureIsolated ==
    pc \in {"checking", "exited"} =>
        /\ processed_count
               = Cardinality({i \in DOMAIN future_to_entry :
                                 future_to_entry[i].state = "collected"})
        /\ \A n \in DOMAIN all_m3u_entries :
               CollectionFailed(n) => (Verdict(n) = "Invalid" /\ OccurrencesInValid(n) = 0)
        /\ CheckingDone =>
               /\ processed_count = Len(tasks_to_run)
               /\ invalid_links_count
                      = Cardinality({n \in DOMAIN all_m3u_entries : Verdict(n) = "Invalid"})
               /\ \A i \in DOMAIN tasks_to_run :
                      Verdict(tasks_to_run[i][1].original_line_number)
                          \in {"Valid", "PossiblyValid", "Invalid"}

\* A finished loop over three tasks where the first collection failed and a
\* later one produced a valid entry.
C10_Witness ==
    /\ CheckingDone
    /\ processed_count = 3
    /\ CollectionFailed(1)
    /\ \E n \in DOMAIN all_m3u_entries : Verdict(n) = "Valid"
    /\ \E n \in DOMAIN all_m3u_entries : Verdict(n) = "Invalid" /\ ~CollectionFailed(n)

====
